---- MODULE Spec2Model ----
(***************************************************************************)
(* A model of bodil/opt: the Option and Result wrappers of                 *)
(* src/option-impl.ts with the factories of src/option.ts and              *)
(* src/result.ts.                                                          *)
(*                                                                         *)
(* Wrappers are objects with identity: the heap is the sequence of the     *)
(* wrappers constructed so far, a reference is an index into it, and       *)
(* heap[1] is the module-level None.  Every method call is one action; it  *)
(* records in `last` the call, the value returned and what it did with the *)
(* callback it was given.                                                  *)
(***************************************************************************)
EXTENDS Integers, Sequences, FiniteSets, TLC

VARIABLES heap, last

vars == <<heap, last>>

\* ---------------------------------------------------------------- bounds
\* Number payloads are 0..MaxVal.
MaxVal == 1
\* The number of wrappers the program constructs, the shared None included.
MaxHeap == 4

\* ---------------------------------------------------------------- values
\* A JavaScript value stored in a payload slot: a number, a function
\* (named by f) or undefined.
Num(n) == [t |-> "number", n |-> n, f |-> "-"]
Fn(name) == [t |-> "function", n |-> 0, f |-> name]
Undefined == [t |-> "undefined", n |-> 0, f |-> "-"]

Nums == {Num(n) : n \in 0..MaxVal}

\* The callbacks `f: (value: A) => B` the callers pass:
\*   succ = x => typeof x === "number" ? (x + 1) % (MaxVal + 1) : 0
\*   zero = _ => 0
ValueFns == {"succ", "zero"}

\* f(value) for a callback of ValueFns
ApplyFn(f, v) ==
    IF f = "succ" /\ v.t = "number" THEN Num((v.n + 1) % (MaxVal + 1))
    ELSE Num(0)

\* The other JavaScript values of the model: booleans, null, the empty
\* string, and Error instances (f the error's name, n its identity).
Bool(b) == [t |-> "boolean", n |-> IF b THEN 1 ELSE 0, f |-> "-"]
Null == [t |-> "null", n |-> 0, f |-> "-"]
EmptyString == [t |-> "string", n |-> 0, f |-> "-"]
ErrorVal(name, n) == [t |-> "Error", n |-> n, f |-> name]

\* the Error instances the callers construct and throw
Errors == {ErrorVal("RangeError", n) : n \in 0..MaxVal}

\* a DOMException instance; f is its name
DOMExceptionVal(name) == [t |-> "DOMException", n |-> 0, f |-> name]

\* ---------------------------------------------------------------- objects
\* Object.create(OptionClass.prototype) with result and value set
SomeObj(value) == [cls |-> "Option", result |-> TRUE, value |-> value]
\* the None object: result is false and no value property is ever set, so
\* reading .value gives undefined
NoneObj == [cls |-> "Option", result |-> FALSE, value |-> Undefined]
OkObj(a) == [cls |-> "Result", result |-> TRUE, value |-> a]
ErrObj(e) == [cls |-> "Result", result |-> FALSE, value |-> e]

\* the object the factory Some, Ok or Err constructs
Construct(factory, value) ==
    CASE factory = "Some" -> SomeObj(value)
      [] factory = "Ok" -> OkObj(value)
      [] factory = "Err" -> ErrObj(value)

\* the reference of the shared None
None == 1

Refs == 1..Len(heap)
Options == {r \in Refs : heap[r].cls = "Option"}
Results == {r \in Refs : heap[r].cls = "Result"}

\* isSome that returns the negated tag
isSome_negated(self) == ~heap[self].result

isSome(self) == heap[self].result
isNone(self) == ~heap[self].result
isOk(self) == heap[self].result
isErr(self) == ~heap[self].result

\* no plain object
NoDoc == [none |-> TRUE]

\* the record of a call: op(self, arg | fn) returned ret; the callback was
\* invoked `calls` times, with farg, and returned the wrapper fret.
\* arg, kref, ret and fret are references or 0.
\* A call that returns no wrapper has ret 0: it returned the value val (or
\* the plain object doc), or, when threw, it threw the value thrown.
\* args are the plain values the call was given.  A callback that returns a
\* plain value or throws was invoked with fargs and returned (or, when
\* fthrew, threw) fval.  ran lists, in order, the parameters (onSome, ok,
\* ...) of a two-callback method that were invoked.
Call(op, self, arg, fn, kref, ret, calls, farg, fret) ==
    [op |-> op, self |-> self, arg |-> arg, fn |-> fn, kref |-> kref,
     ret |-> ret, calls |-> calls, farg |-> farg, fret |-> fret,
     val |-> Undefined, threw |-> FALSE, thrown |-> Undefined, doc |-> NoDoc,
     args |-> <<>>, fargs |-> <<>>, fthrew |-> FALSE, fval |-> Undefined,
     ran |-> <<>>]

NoCall == Call("init", 0, 0, "-", 0, 0, 0, Undefined, 0)

Init ==
    /\ heap = <<NoneObj>>
    /\ last = NoCall

\* ---------------------------------------------------------------- callbacks
\* A callback that returns a wrapper is the factory itself (opt.chain(Some)),
\* a closure `() => w` over an existing wrapper w (fn "konst", kref w), or
\* a closure that constructs (`() => Some(0)`, fn "mkSome").
NoCb == [fn |-> "-", kref |-> 0]
ValueCbs == {[fn |-> f, kref |-> 0] : f \in ValueFns}
OptionCbs ==
    {[fn |-> "Some", kref |-> 0]} \cup {[fn |-> "konst", kref |-> r] : r \in Options}
OptionThunks ==
    {[fn |-> "mkSome", kref |-> 0]} \cup {[fn |-> "konst", kref |-> r] : r \in Options}

\* What a method body did: the heap it left, the reference it returned,
\* and how it used the callback.
Outcome(h, ret, calls, farg, fret) ==
    [heap |-> h, ret |-> ret, calls |-> calls, farg |-> farg, fret |-> fret,
     val |-> Undefined, threw |-> FALSE, thrown |-> Undefined, doc |-> NoDoc,
     fargs |-> <<>>, fthrew |-> FALSE, fval |-> Undefined, ran |-> <<>>]

\* return of an existing wrapper, nothing invoked
Return(ret) == Outcome(heap, ret, 0, Undefined, 0)

\* return of a value that is no wrapper, nothing invoked
ReturnValue(v) == [Return(0) EXCEPT !.val = v]

\* return of a plain object, nothing invoked
ReturnDoc(d) == [Return(0) EXCEPT !.doc = d]

\* `throw e`, nothing invoked
Throw(e) == [Return(0) EXCEPT !.threw = TRUE, !.thrown = e]

\* return of a newly constructed wrapper, nothing invoked
ReturnNew(obj) == Outcome(Append(heap, obj), Len(heap) + 1, 0, Undefined, 0)

\* f(v) for a wrapper-returning callback; the method returns what f returned
InvokeCb(cb, v) ==
    CASE cb.fn \in {"Some", "Ok", "Err"} ->
            Outcome(Append(heap, Construct(cb.fn, v)), Len(heap) + 1, 1, v, Len(heap) + 1)
      [] cb.fn = "mkSome" ->
            Outcome(Append(heap, SomeObj(Num(0))), Len(heap) + 1, 1, v, Len(heap) + 1)
      [] cb.fn = "konst" ->
            Outcome(heap, cb.kref, 1, v, cb.kref)

\* the wrapping of v itself, f not called
InvokeWrap_noCall(cb, v, factory) ==
    Outcome(Append(heap, Construct(factory, v)), Len(heap) + 1, 0, Undefined, 0)

\* Some(f(v)), Ok(f(v)) or Err(f(v)) for a value callback f
InvokeWrap(cb, v, factory) ==
    Outcome(Append(heap, Construct(factory, ApplyFn(cb.fn, v))), Len(heap) + 1, 1, v, 0)

\* the model constructs at most MaxHeap wrappers
Fits(out) == Len(out.heap) <= MaxHeap

\* the record of the call op(self, arg | cb) that ended as out
Called(op, self, arg, cb, out) ==
    [op |-> op, self |-> self, arg |-> arg, fn |-> cb.fn, kref |-> cb.kref,
     ret |-> out.ret, calls |-> out.calls, farg |-> out.farg, fret |-> out.fret,
     val |-> out.val, threw |-> out.threw, thrown |-> out.thrown, doc |-> out.doc,
     args |-> <<>>, fargs |-> out.fargs, fthrew |-> out.fthrew, fval |-> out.fval,
     ran |-> out.ran]

\* ---------------------------------------------------------------- Option
\* Some(value): a new Option holding value
Some(value) ==
    ReturnNew(SomeObj(value))

\* a call of Some
Call_Some ==
    \E value \in Nums :
        LET out == Some(value)
        IN  /\ Fits(out)
            /\ heap' = out.heap
            /\ last' = Called("Some", 0, 0, NoCb, out)

\* Option.chain that calls f whatever the variant
Option_chain_always(self, f) ==
    InvokeCb(f, heap[self].value)

\* chain(f): this.isSome() ? f(this.value) : None
Option_chain(self, f) ==
    IF isSome(self) THEN InvokeCb(f, heap[self].value) ELSE Return(None)

\* a call of Option.chain
Call_Option_chain ==
    \E self \in Options, f \in OptionCbs :
        LET out == Option_chain(self, f)
        IN  /\ Fits(out)
            /\ heap' = out.heap
            /\ last' = Called("Option.chain", self, 0, f, out)

\* Option.chainNone that returns a copy of a Some receiver
Option_chainNone_copy(self, f) ==
    IF isNone(self) THEN InvokeCb(f, Undefined)
    ELSE ReturnNew(SomeObj(heap[self].value))

\* chainNone(f): this.isNone() ? f() : this
Option_chainNone(self, f) ==
    IF isNone(self) THEN InvokeCb(f, Undefined) ELSE Return(self)

\* a call of Option.chainNone
Call_Option_chainNone ==
    \E self \in Options, f \in OptionThunks :
        LET out == Option_chainNone(self, f)
        IN  /\ Fits(out)
            /\ heap' = out.heap
            /\ last' = Called("Option.chainNone", self, 0, f, out)

\* Option.map that overwrites the payload of the receiver and returns it
Option_map_inPlace(self, f) ==
    IF isSome(self)
    THEN Outcome([heap EXCEPT ![self].value = ApplyFn(f.fn, heap[self].value)],
                 self, 1, heap[self].value, 0)
    ELSE Return(None)

\* Option.map that wraps the payload again without calling f
Option_map_noCall(self, f) ==
    IF isSome(self) THEN ReturnNew(SomeObj(heap[self].value)) ELSE Return(None)

\* map(f): this.isSome() ? Some(f(this.value)) : None
Option_map(self, f) ==
    IF isSome(self) THEN InvokeWrap(f, heap[self].value, "Some") ELSE Return(None)

\* a call of Option.map
Call_Option_map ==
    \E self \in Options, f \in ValueCbs :
        LET out == Option_map(self, f)
        IN  /\ Fits(out)
            /\ heap' = out.heap
            /\ last' = Called("Option.map", self, 0, f, out)

\* and(option): this.isNone() ? option : None
Option_and(self, option) ==
    IF isNone(self) THEN Return(option) ELSE Return(None)

\* a call of Option.and
Call_Option_and ==
    \E self \in Options, option \in Options :
        LET out == Option_and(self, option)
        IN  /\ Fits(out)
            /\ heap' = out.heap
            /\ last' = Called("Option.and", self, option, NoCb, out)

\* or(option): this.isNone() ? this : option
Option_or(self, option) ==
    IF isNone(self) THEN Return(self) ELSE Return(option)

\* a call of Option.or
Call_Option_or ==
    \E self \in Options, option \in Options :
        LET out == Option_or(self, option)
        IN  /\ Fits(out)
            /\ heap' = out.heap
            /\ last' = Called("Option.or", self, option, NoCb, out)

NextOption ==
    \/ Call_Some
    \/ Call_Option_chain
    \/ Call_Option_chainNone
    \/ Call_Option_map
    \/ Call_Option_and
    \/ Call_Option_or

SpecOption == Init /\ [][NextOption]_vars

\* ---------------------------------------------------------------- Result
ResultCbs ==
    {[fn |-> "Ok", kref |-> 0], [fn |-> "Err", kref |-> 0]}
        \cup {[fn |-> "konst", kref |-> r] : r \in Results}

\* the success payloads the callers construct: numbers and functions
OkPayloads == Nums \cup {Fn(f) : f \in ValueFns}

\* the Results an ap accepts as f: Result<(a: A) => B, E>
FnResults == {r \in Results : isOk(r) => heap[r].value.t = "function"}

\* f.value as a callback, for f of FnResults
FnOf(f) == [fn |-> heap[f].value.f, kref |-> 0]

\* Ok(a): a new Result holding the success value a
Ok(a) ==
    ReturnNew(OkObj(a))

\* a call of Ok
Call_Ok ==
    \E a \in OkPayloads :
        LET out == Ok(a)
        IN  /\ Fits(out)
            /\ heap' = out.heap
            /\ last' = Called("Ok", 0, 0, NoCb, out)

\* Err(e): a new Result holding the error value e
Err(e) ==
    ReturnNew(ErrObj(e))

\* a call of Err
Call_Err ==
    \E e \in Nums :
        LET out == Err(e)
        IN  /\ Fits(out)
            /\ heap' = out.heap
            /\ last' = Called("Err", 0, 0, NoCb, out)

\* chain(f): if (this.isOk()) return f(this.value); return this
Result_chain(self, f) ==
    IF isOk(self) THEN InvokeCb(f, heap[self].value) ELSE Return(self)

\* a call of Result.chain
Call_Result_chain ==
    \E self \in Results, f \in ResultCbs :
        LET out == Result_chain(self, f)
        IN  /\ Fits(out)
            /\ heap' = out.heap
            /\ last' = Called("Result.chain", self, 0, f, out)

\* Result.chainErr that returns a copy of an Ok receiver
Result_chainErr_copy(self, f) ==
    IF isErr(self) THEN InvokeCb(f, heap[self].value)
    ELSE ReturnNew(OkObj(heap[self].value))

\* chainErr(f): if (this.isErr()) return f(this.value); return this
Result_chainErr(self, f) ==
    IF isErr(self) THEN InvokeCb(f, heap[self].value) ELSE Return(self)

\* a call of Result.chainErr
Call_Result_chainErr ==
    \E self \in Results, f \in ResultCbs :
        LET out == Result_chainErr(self, f)
        IN  /\ Fits(out)
            /\ heap' = out.heap
            /\ last' = Called("Result.chainErr", self, 0, f, out)

\* map(f): if (this.isOk()) return Ok(f(this.value)); return this
Result_map(self, f) ==
    IF isOk(self) THEN InvokeWrap(f, heap[self].value, "Ok") ELSE Return(self)

\* a call of Result.map
Call_Result_map ==
    \E self \in Results, f \in ValueCbs :
        LET out == Result_map(self, f)
        IN  /\ Fits(out)
            /\ heap' = out.heap
            /\ last' = Called("Result.map", self, 0, f, out)

\* Result.mapErr that wraps the transformed error in an Ok
Result_mapErr_toOk(self, f) ==
    IF isErr(self) THEN InvokeWrap(f, heap[self].value, "Ok") ELSE Return(self)

\* mapErr(f): if (this.isErr()) return Err(f(this.value)); return this
Result_mapErr(self, f) ==
    IF isErr(self) THEN InvokeWrap(f, heap[self].value, "Err") ELSE Return(self)

\* a call of Result.mapErr
Call_Result_mapErr ==
    \E self \in Results, f \in ValueCbs :
        LET out == Result_mapErr(self, f)
        IN  /\ Fits(out)
            /\ heap' = out.heap
            /\ last' = Called("Result.mapErr", self, 0, f, out)

\* Result.ap testing the receiver before f: the value-side error wins
Result_ap_receiverFirst(self, f) ==
    IF isErr(self) THEN Return(self)
    ELSE IF isErr(f) THEN Return(f)
    ELSE InvokeWrap(FnOf(f), heap[self].value, "Ok")

\* ap(f): if (f.isErr()) return f; if (this.isOk()) return
\* Ok(f.value(this.value)); return this
Result_ap(self, f) ==
    IF isErr(f) THEN Return(f)
    ELSE IF isOk(self) THEN InvokeWrap(FnOf(f), heap[self].value, "Ok")
    ELSE Return(self)

\* a call of Result.ap
Call_Result_ap ==
    \E self \in Results, f \in FnResults :
        LET out == Result_ap(self, f)
        IN  /\ Fits(out)
            /\ heap' = out.heap
            /\ last' = Called("Result.ap", self, f, FnOf(f), out)

\* Result.and with the test inverted
Result_and_swapped(self, result) ==
    IF isOk(self) THEN Return(self) ELSE Return(result)

\* and(result): this.isOk() ? result : this
Result_and(self, result) ==
    IF isOk(self) THEN Return(result) ELSE Return(self)

\* a call of Result.and
Call_Result_and ==
    \E self \in Results, result \in Results :
        LET out == Result_and(self, result)
        IN  /\ Fits(out)
            /\ heap' = out.heap
            /\ last' = Called("Result.and", self, result, NoCb, out)

\* or(result): this.isErr() ? this : result
Result_or(self, result) ==
    IF isErr(self) THEN Return(self) ELSE Return(result)

\* a call of Result.or
Call_Result_or ==
    \E self \in Results, result \in Results :
        LET out == Result_or(self, result)
        IN  /\ Fits(out)
            /\ heap' = out.heap
            /\ last' = Called("Result.or", self, result, NoCb, out)

\* The Result combinators that take a second Result: and, or, ap
NextResultPair ==
    \/ Call_Ok
    \/ Call_Err
    \/ Call_Result_ap
    \/ Call_Result_and
    \/ Call_Result_or

SpecResultPair == Init /\ [][NextResultPair]_vars

\* The Result combinators that take a callback: chain, chainErr, map, mapErr
NextResultBind ==
    \/ Call_Ok
    \/ Call_Err
    \/ Call_Result_chain
    \/ Call_Result_chainErr
    \/ Call_Result_map
    \/ Call_Result_mapErr

SpecResultBind == Init /\ [][NextResultBind]_vars

\* chain and chainErr alone, with the constructors
NextResultChain ==
    \/ Call_Ok
    \/ Call_Err
    \/ Call_Result_chain
    \/ Call_Result_chainErr

SpecResultChain == Init /\ [][NextResultChain]_vars

\* map and mapErr alone, with the constructors
NextResultMap ==
    \/ Call_Ok
    \/ Call_Err
    \/ Call_Result_map
    \/ Call_Result_mapErr

SpecResultMap == Init /\ [][NextResultMap]_vars

Next == NextOption \/ NextResultPair \/ NextResultBind

Spec == Init /\ [][Next]_vars

\* ---------------------------------------------------------------- Result: unwrapping
\* a call of Err with an Error instance: Err(new RangeError())
Call_Err_Error ==
    \E e \in Errors :
        LET out == Err(e)
        IN  /\ Fits(out)
            /\ heap' = out.heap
            /\ last' = Called("Err", 0, 0, NoCb, out)

\* Result.unwrap that returns the payload whatever the variant
Result_unwrap_anySide(self) ==
    ReturnValue(heap[self].value)

\* unwrap(): this.isOk() ? this.value : undefined
Result_unwrap(self) ==
    IF isOk(self) THEN ReturnValue(heap[self].value) ELSE ReturnValue(Undefined)

\* a call of Result.unwrap
Call_Result_unwrap ==
    \E self \in Results :
        LET out == Result_unwrap(self)
        IN  /\ Fits(out)
            /\ heap' = out.heap
            /\ last' = Called("Result.unwrap", self, 0, NoCb, out)

\* unwrapErr(): this.isErr() ? this.value : undefined
Result_unwrapErr(self) ==
    IF isErr(self) THEN ReturnValue(heap[self].value) ELSE ReturnValue(Undefined)

\* a call of Result.unwrapErr
Call_Result_unwrapErr ==
    \E self \in Results :
        LET out == Result_unwrapErr(self)
        IN  /\ Fits(out)
            /\ heap' = out.heap
            /\ last' = Called("Result.unwrapErr", self, 0, NoCb, out)

\* Result.unwrapExact that throws a new Error in place of the payload
Result_unwrapExact_wrapped(self) ==
    IF isErr(self) THEN Throw(ErrorVal("Error", 0))
    ELSE ReturnValue(heap[self].value)

\* unwrapExact(): if (this.isErr()) throw this.value; else return this.value
Result_unwrapExact(self) ==
    IF isErr(self) THEN Throw(heap[self].value)
    ELSE ReturnValue(heap[self].value)

\* a call of Result.unwrapExact
Call_Result_unwrapExact ==
    \E self \in Results :
        LET out == Result_unwrapExact(self)
        IN  /\ Fits(out)
            /\ heap' = out.heap
            /\ last' = Called("Result.unwrapExact", self, 0, NoCb, out)

\* Result's unwrap, unwrapErr and unwrapExact
NextResultUnwrap ==
    \/ Call_Ok
    \/ Call_Err
    \/ Call_Err_Error
    \/ Call_Result_unwrap
    \/ Call_Result_unwrapErr
    \/ Call_Result_unwrapExact

SpecResultUnwrap == Init /\ [][NextResultUnwrap]_vars

\* ---------------------------------------------------------------- Result.try, Result.lift
\* The thunks `f: () => A` given to Result.try: `() => v`, and
\* `() => { throw e; }` for an e that is a number or an Error instance.
Thunks ==
    {[fn |-> "return", kref |-> 0, v |-> v, g |-> "-", args |-> <<>>] : v \in Nums}
        \cup {[fn |-> "throw", kref |-> 0, v |-> e, g |-> "-", args |-> <<>>] :
                e \in Nums \cup Errors}

\* The functions given to Result.lift:
\*   div = (n, by) => { if (by === 0) throw new RangeError(...); return n / by }
\*         (on the numbers of the model, n / by is the integer quotient)
\*   add = (a, b) => (a + b) % (MaxVal + 1)
LiftFns == {"div", "add"}

\* how a call of a function ends: it returns v or throws v
Returns(v) == [threw |-> FALSE, v |-> v]
Throws(v) == [threw |-> TRUE, v |-> v]

\* fn(...args) for fn of LiftFns
ApplyLiftFn(fn, args) ==
    IF fn = "div"
    THEN IF args[2].n = 0 THEN Throws(ErrorVal("RangeError", 0))
         ELSE Returns(Num(args[1].n \div args[2].n))
    ELSE Returns(Num((args[1].n + args[2].n) % (MaxVal + 1)))

\* f() for a thunk: `() => v`, `() => { throw e; }`, `() => fn(...args)`
RunThunk(f) ==
    CASE f.fn = "return" -> Returns(f.v)
      [] f.fn = "throw" -> Throws(f.v)
      [] f.fn = "apply" -> ApplyLiftFn(f.g, f.args)

\* what the one call of the thunk f did
Invoked(out, f) ==
    [out EXCEPT !.calls = 1, !.fargs = f.args, !.fthrew = RunThunk(f).threw,
                !.fval = RunThunk(f).v]

\* Result.try that catches Error instances only and rethrows the rest
Result_try_errorsOnly(f) ==
    IF RunThunk(f).threw
    THEN IF RunThunk(f).v.t = "Error"
         THEN Invoked(ReturnNew(ErrObj(RunThunk(f).v)), f)
         ELSE Invoked(Throw(RunThunk(f).v), f)
    ELSE Invoked(ReturnNew(OkObj(RunThunk(f).v)), f)

\* try(f): try { return Ok(f()); } catch (e) { return Err(e); }
Result_try(f) ==
    IF RunThunk(f).threw
    THEN Invoked(ReturnNew(ErrObj(RunThunk(f).v)), f)
    ELSE Invoked(ReturnNew(OkObj(RunThunk(f).v)), f)

\* a call of Result.try
Call_Result_try ==
    \E f \in Thunks :
        LET out == Result_try(f)
        IN  /\ Fits(out)
            /\ heap' = out.heap
            /\ last' = Called("Result.try", 0, 0, f, out)

\* the function object Result.lift returns: a closure over fn
LiftedObj(fn) == [cls |-> "Lifted", result |-> FALSE, value |-> Fn(fn)]

Lifteds == {r \in Refs : heap[r].cls = "Lifted"}

\* lift(fn): return (...args) => Result.try(() => fn(...args))
Result_lift(fn) ==
    ReturnNew(LiftedObj(fn))

\* a call of Result.lift
Call_Result_lift ==
    \E fn \in LiftFns :
        LET out == Result_lift(fn)
        IN  /\ Fits(out)
            /\ heap' = out.heap
            /\ last' = Called("Result.lift", 0, 0, [fn |-> fn, kref |-> 0], out)

\* the thunk `() => fn(...args)` of the lifted function self
LiftedThunk(self, args) ==
    [fn |-> "apply", kref |-> 0, v |-> Undefined, g |-> heap[self].value.f,
     args |-> args]

\* a lifted function that passes its arguments to fn in reverse order
Lifted_call_reversed(self, args) ==
    Result_try(LiftedThunk(self, <<args[2], args[1]>>))

\* (...args) => Result.try(() => fn(...args))
Lifted_call(self, args) ==
    Result_try(LiftedThunk(self, args))

\* a call of a lifted function
Call_Lifted ==
    \E self \in Lifteds, args \in Nums \X Nums :
        LET out == Lifted_call(self, args)
        IN  /\ Fits(out)
            /\ heap' = out.heap
            /\ last' = [Called("lifted", self, 0, [fn |-> heap[self].value.f, kref |-> 0], out)
                            EXCEPT !.args = args]

\* Result.try, Result.lift and the lifted functions
NextTry ==
    \/ Call_Result_try
    \/ Call_Result_lift
    \/ Call_Lifted

SpecTry == Init /\ [][NextTry]_vars

\* ---------------------------------------------------------------- Result.await
\* a reference to an object of the heap, as a JavaScript value
Ref(r) == [t |-> "object", n |-> r, f |-> "-"]

\* A promise: its state, its value or reason once settled, and, for a
\* promise that src.then(onF, onR) returned, the reaction that settles it
\* (ranF and ranR count the runs of onF and onR; a handler "-" is absent).
PromiseObj(state, value, src, onF, onR) ==
    [cls |-> "Promise", result |-> FALSE, value |-> value, state |-> state,
     src |-> src, onF |-> onF, onR |-> onR, ranF |-> 0, ranR |-> 0]

Promises == {r \in Refs : heap[r].cls = "Promise"}

\* the promises that m.then(...) returned
Derived == {r \in Promises : heap[r].src # 0}

\* the values an asynchronous operation rejects with
Reasons == Nums \cup Errors

\* The events of the platform (a promise created, settled, a reaction job
\* run) are no calls of the library: they leave `last` alone.

\* the caller starts an asynchronous operation: a pending promise
Call_NewPromise ==
    LET out == ReturnNew(PromiseObj("pending", Undefined, 0, "-", "-"))
    IN  /\ Fits(out)
        /\ heap' = out.heap
        /\ UNCHANGED last

\* the asynchronous operation succeeds: its promise fulfils with value
Promise_fulfil ==
    \E m \in Promises \ Derived, value \in Nums :
        /\ heap[m].state = "pending"
        /\ heap' = [heap EXCEPT ![m].state = "fulfilled", ![m].value = value]
        /\ UNCHANGED last

\* the asynchronous operation fails: its promise rejects with reason
Promise_reject ==
    \E m \in Promises \ Derived, reason \in Reasons :
        /\ heap[m].state = "pending"
        /\ heap' = [heap EXCEPT ![m].state = "rejected", ![m].value = reason]
        /\ UNCHANGED last

\* m.then(onF, onR): a new pending promise that m's settlement settles
Promise_then(m, onF, onR) ==
    ReturnNew(PromiseObj("pending", Undefined, m, onF, onR))

\* Result.await without the rejection handler: m.then(Ok)
Result_await_noErr(m) ==
    Promise_then(m, "Ok", "-")

\* await(m): return m.then(Ok, Err)
Result_await(m) ==
    Promise_then(m, "Ok", "Err")

\* a call of Result.await
Call_Result_await ==
    \E m \in Promises :
        LET out == Result_await(m)
        IN  /\ Fits(out)
            /\ heap' = out.heap
            /\ last' = Called("Result.await", m, 0, NoCb, out)

\* The reaction job of the derived promise d, once its source has settled:
\* the handler for the source's state is called with the source's value and
\* d fulfils with what it returns (Ok and Err never throw); without a
\* handler d takes the source's state and value.
PromiseReaction(d) ==
    LET src == heap[heap[d].src]
        h == IF src.state = "fulfilled" THEN heap[d].onF ELSE heap[d].onR
        w == Len(heap) + 1
    IN  IF h = "-"
        THEN [Return(0) EXCEPT
                !.heap = [heap EXCEPT ![d].state = src.state, ![d].value = src.value]]
        ELSE [InvokeCb([fn |-> h, kref |-> 0], src.value) EXCEPT
                !.heap = Append([heap EXCEPT
                                    ![d].state = "fulfilled",
                                    ![d].value = Ref(w),
                                    ![d].ranF = @ + (IF src.state = "fulfilled" THEN 1 ELSE 0),
                                    ![d].ranR = @ + (IF src.state = "rejected" THEN 1 ELSE 0)],
                                Construct(h, src.value))]

\* the job queue runs the reaction of a derived promise whose source has
\* settled
RunReaction ==
    \E d \in Derived :
        /\ heap[d].state = "pending"
        /\ heap[heap[d].src].state # "pending"
        /\ LET out == PromiseReaction(d)
           IN  /\ heap' = out.heap
               /\ UNCHANGED last

NextAwait ==
    \/ Call_NewPromise
    \/ Promise_fulfil
    \/ Promise_reject
    \/ Call_Result_await
    \/ RunReaction

\* the job queue is always drained: a reaction that can run does run
SpecAwait == Init /\ [][NextAwait]_vars /\ WF_vars(RunReaction)

\* ---------------------------------------------------------------- JSON
\* A plain object is a record: its keys are the record's fields.
\* doc[key], undefined when the object has no such key
DocGet(doc, key) == IF key \in DOMAIN doc THEN doc[key] ELSE Undefined

\* Option.toJSON that writes the value key for None too
Option_toJSON_valueKey(self) ==
    ReturnDoc([result |-> heap[self].result, value |-> heap[self].value])

\* toJSON(): this.isSome() ? { result: true, value: this.value }
\*                         : { result: false }
Option_toJSON(self) ==
    IF isSome(self)
    THEN ReturnDoc([result |-> TRUE, value |-> heap[self].value])
    ELSE ReturnDoc([result |-> FALSE])

\* a call of Option.toJSON
Call_Option_toJSON ==
    \E self \in Options :
        LET out == Option_toJSON(self)
        IN  /\ Fits(out)
            /\ heap' = out.heap
            /\ last' = Called("Option.toJSON", self, 0, NoCb, out)

\* toJSON(): { result: this.result, value: this.value }
Result_toJSON(self) ==
    ReturnDoc([result |-> heap[self].result, value |-> heap[self].value])

\* a call of Result.toJSON
Call_Result_toJSON ==
    \E self \in Results :
        LET out == Result_toJSON(self)
        IN  /\ Fits(out)
            /\ heap' = out.heap
            /\ last' = Called("Result.toJSON", self, 0, NoCb, out)

\* Option.fromJSON(doc): doc.result ? Some(doc.value) : None
Option_fromJSON(doc) ==
    IF doc.result THEN ReturnNew(SomeObj(DocGet(doc, "value"))) ELSE Return(None)

\* a call of Option.fromJSON with the document x.toJSON() of an Option x;
\* arg records x
Call_Option_fromJSON ==
    \E x \in Options :
        LET doc == Option_toJSON(x).doc
            out == Option_fromJSON(doc)
        IN  /\ Fits(out)
            /\ heap' = out.heap
            /\ last' = [Called("Option.fromJSON", 0, x, NoCb, out) EXCEPT !.doc = doc]

\* Result.fromJSON that reads the flag inverted
Result_fromJSON_inverted(doc) ==
    IF doc.result THEN ReturnNew(ErrObj(DocGet(doc, "value")))
    ELSE ReturnNew(OkObj(DocGet(doc, "value")))

\* Result.fromJSON(doc): doc.result ? Ok(doc.value) : Err(doc.value)
Result_fromJSON(doc) ==
    IF doc.result THEN ReturnNew(OkObj(DocGet(doc, "value")))
    ELSE ReturnNew(ErrObj(DocGet(doc, "value")))

\* a call of Result.fromJSON with the document x.toJSON() of a Result x;
\* arg records x
Call_Result_fromJSON ==
    \E x \in Results :
        LET doc == Result_toJSON(x).doc
            out == Result_fromJSON(doc)
        IN  /\ Fits(out)
            /\ heap' = out.heap
            /\ last' = [Called("Result.fromJSON", 0, x, NoCb, out) EXCEPT !.doc = doc]

\* toJSON and fromJSON of both types
NextJSON ==
    \/ Call_Some
    \/ Call_Ok
    \/ Call_Err
    \/ Call_Option_toJSON
    \/ Call_Result_toJSON
    \/ Call_Option_fromJSON
    \/ Call_Result_fromJSON

SpecJSON == Init /\ [][NextJSON]_vars

\* ---------------------------------------------------------------- Option.from
\* the values given to Option.from: numbers (0 among them), undefined, and
\* the other falsy values null, false and ''
FromValues == Nums \cup {Undefined, Null, Bool(FALSE), EmptyString}

\* the falsy values of JavaScript, among the values of the model
Falsy(value) == value \in {Num(0), Undefined, Null, Bool(FALSE), EmptyString}

\* Option.from that tests truthiness: value ? Some(value) : None
Option_from_truthy(value) ==
    IF Falsy(value) THEN Return(None) ELSE ReturnNew(SomeObj(value))

\* Option.from(value): value === undefined ? None : Some(value)
Option_from(value) ==
    IF value = Undefined THEN Return(None) ELSE ReturnNew(SomeObj(value))

\* a call of Option.from
Call_Option_from ==
    \E value \in FromValues :
        LET out == Option_from(value)
        IN  /\ Fits(out)
            /\ heap' = out.heap
            /\ last' = [Called("Option.from", 0, 0, NoCb, out) EXCEPT !.args = <<value>>]

NextFrom ==
    \/ Call_Option_from

SpecFrom == Init /\ [][NextFrom]_vars

\* ---------------------------------------------------------------- narrowing assertions
\* new TypeError("Expected ... but got ...")
TypeError == ErrorVal("TypeError", 0)

\* assertSome(): if (!this.isSome()) throw new TypeError(...)
Option_assertSome(self) ==
    IF ~isSome(self) THEN Throw(TypeError) ELSE ReturnValue(Undefined)

\* a call of Option.assertSome
Call_Option_assertSome ==
    \E self \in Options :
        LET out == Option_assertSome(self)
        IN  /\ Fits(out)
            /\ heap' = out.heap
            /\ last' = Called("Option.assertSome", self, 0, NoCb, out)

\* Option.assertNone that throws on None
Option_assertNone_inverted(self) ==
    IF isNone(self) THEN Throw(TypeError) ELSE ReturnValue(Undefined)

\* assertNone(): if (!this.isNone()) throw new TypeError(...)
Option_assertNone(self) ==
    IF ~isNone(self) THEN Throw(TypeError) ELSE ReturnValue(Undefined)

\* a call of Option.assertNone
Call_Option_assertNone ==
    \E self \in Options :
        LET out == Option_assertNone(self)
        IN  /\ Fits(out)
            /\ heap' = out.heap
            /\ last' = Called("Option.assertNone", self, 0, NoCb, out)

\* assertOk(): if (!this.isOk()) throw new TypeError(...)
Result_assertOk(self) ==
    IF ~isOk(self) THEN Throw(TypeError) ELSE ReturnValue(Undefined)

\* a call of Result.assertOk
Call_Result_assertOk ==
    \E self \in Results :
        LET out == Result_assertOk(self)
        IN  /\ Fits(out)
            /\ heap' = out.heap
            /\ last' = Called("Result.assertOk", self, 0, NoCb, out)

\* assertErr(): if (!this.isErr()) throw new TypeError(...)
Result_assertErr(self) ==
    IF ~isErr(self) THEN Throw(TypeError) ELSE ReturnValue(Undefined)

\* a call of Result.assertErr
Call_Result_assertErr ==
    \E self \in Results :
        LET out == Result_assertErr(self)
        IN  /\ Fits(out)
            /\ heap' = out.heap
            /\ last' = Called("Result.assertErr", self, 0, NoCb, out)

\* the narrowing assertions of both types
NextAssert ==
    \/ Call_Some
    \/ Call_Ok
    \/ Call_Err
    \/ Call_Option_assertSome
    \/ Call_Option_assertNone
    \/ Call_Result_assertOk
    \/ Call_Result_assertErr

SpecAssert == Init /\ [][NextAssert]_vars

\* ---------------------------------------------------------------- observers
\* isSome(): return this.result
Option_isSome(self) ==
    ReturnValue(Bool(isSome(self)))

\* a call of Option.isSome
Call_Option_isSome ==
    \E self \in Options :
        LET out == Option_isSome(self)
        IN  /\ Fits(out)
            /\ heap' = out.heap
            /\ last' = Called("Option.isSome", self, 0, NoCb, out)

\* isNone(): return !this.result
Option_isNone(self) ==
    ReturnValue(Bool(isNone(self)))

\* a call of Option.isNone
Call_Option_isNone ==
    \E self \in Options :
        LET out == Option_isNone(self)
        IN  /\ Fits(out)
            /\ heap' = out.heap
            /\ last' = Called("Option.isNone", self, 0, NoCb, out)

\* Option.unwrap that returns null for None
Option_unwrap_null(self) ==
    IF isSome(self) THEN ReturnValue(heap[self].value) ELSE ReturnValue(Null)

\* unwrap(): this.isSome() ? this.value : undefined
Option_unwrap(self) ==
    IF isSome(self) THEN ReturnValue(heap[self].value) ELSE ReturnValue(Undefined)

\* a call of Option.unwrap
Call_Option_unwrap ==
    \E self \in Options :
        LET out == Option_unwrap(self)
        IN  /\ Fits(out)
            /\ heap' = out.heap
            /\ last' = Called("Option.unwrap", self, 0, NoCb, out)

\* isOk(): return this.result
Result_isOk(self) ==
    ReturnValue(Bool(isOk(self)))

\* a call of Result.isOk
Call_Result_isOk ==
    \E self \in Results :
        LET out == Result_isOk(self)
        IN  /\ Fits(out)
            /\ heap' = out.heap
            /\ last' = Called("Result.isOk", self, 0, NoCb, out)

\* Result.isErr that returns the tag itself
Result_isErr_asIsOk(self) ==
    ReturnValue(Bool(heap[self].result))

\* isErr(): return !this.result
Result_isErr(self) ==
    ReturnValue(Bool(isErr(self)))

\* a call of Result.isErr
Call_Result_isErr ==
    \E self \in Results :
        LET out == Result_isErr(self)
        IN  /\ Fits(out)
            /\ heap' = out.heap
            /\ last' = Called("Result.isErr", self, 0, NoCb, out)

\* the constructors and the predicates of both types, and Option.unwrap
NextObserve ==
    \/ Call_Some
    \/ Call_Ok
    \/ Call_Err
    \/ Call_Option_isSome
    \/ Call_Option_isNone
    \/ Call_Option_unwrap
    \/ Call_Result_isOk
    \/ Call_Result_isErr

SpecObserve == Init /\ [][NextObserve]_vars

\* ---------------------------------------------------------------- Option <-> Result
\* okOr that builds the Err for a Some too
Option_okOr_alwaysErr(self, error) ==
    Err(error)

\* okOr(error): this.isSome() ? Ok(this.value) : Err(error)
Option_okOr(self, error) ==
    IF isSome(self) THEN Ok(heap[self].value) ELSE Err(error)

\* a call of Option.okOr
Call_Option_okOr ==
    \E self \in Options, error \in Nums :
        LET out == Option_okOr(self, error)
        IN  /\ Fits(out)
            /\ heap' = out.heap
            /\ last' = [Called("Option.okOr", self, 0, NoCb, out) EXCEPT !.args = <<error>>]

\* okOrElse(f): this.isSome() ? Ok(this.value) : Err(f())
Option_okOrElse(self, f) ==
    IF isSome(self) THEN Ok(heap[self].value)
    ELSE IF RunThunk(f).threw THEN Invoked(Throw(RunThunk(f).v), f)
    ELSE Invoked(Err(RunThunk(f).v), f)

\* a call of Option.okOrElse
Call_Option_okOrElse ==
    \E self \in Options, f \in Thunks :
        LET out == Option_okOrElse(self, f)
        IN  /\ Fits(out)
            /\ heap' = out.heap
            /\ last' = Called("Option.okOrElse", self, 0, f, out)

\* Result.ok that keeps the payload of an Err
Result_ok_anySide(self) ==
    Some(heap[self].value)

\* ok(): this.isOk() ? Some(this.value) : None
Result_ok(self) ==
    IF isOk(self) THEN Some(heap[self].value) ELSE Return(None)

\* a call of Result.ok
Call_Result_ok ==
    \E self \in Results :
        LET out == Result_ok(self)
        IN  /\ Fits(out)
            /\ heap' = out.heap
            /\ last' = Called("Result.ok", self, 0, NoCb, out)

\* err(): this.isErr() ? Some(this.value) : None
Result_err(self) ==
    IF isErr(self) THEN Some(heap[self].value) ELSE Return(None)

\* a call of Result.err
Call_Result_err ==
    \E self \in Results :
        LET out == Result_err(self)
        IN  /\ Fits(out)
            /\ heap' = out.heap
            /\ last' = Called("Result.err", self, 0, NoCb, out)

\* the projections of an Option into a Result
NextOkOr ==
    \/ Call_Some
    \/ Call_Option_okOr
    \/ Call_Option_okOrElse

SpecOkOr == Init /\ [][NextOkOr]_vars

\* the projections of a Result into an Option
NextProject ==
    \/ Call_Some
    \/ Call_Ok
    \/ Call_Err
    \/ Call_Option_okOr
    \/ Call_Result_ok
    \/ Call_Result_err

SpecProject == Init /\ [][NextProject]_vars

\* ---------------------------------------------------------------- the shared None
\* every operation that can return an empty Option
NextNone ==
    \/ Call_Some
    \/ Call_Ok
    \/ Call_Err
    \/ Call_Option_from
    \/ Call_Option_fromJSON
    \/ Call_Option_map
    \/ Call_Option_chain
    \/ Call_Option_and
    \/ Call_Result_ok
    \/ Call_Result_err

SpecNone == Init /\ [][NextNone]_vars

\* ---------------------------------------------------------------- Option.is, Result.is
\* An `unknown` value: a wrapper (the reference r), a primitive, null or
\* undefined (v), or a plain object (doc).
Wrapper(r) == [kind |-> "wrapper", r |-> r, v |-> Undefined, doc |-> NoDoc]
Primitive(v) == [kind |-> "primitive", r |-> 0, v |-> v, doc |-> NoDoc]
Plain(doc) == [kind |-> "plain", r |-> 0, v |-> Undefined, doc |-> doc]

\* the shapes of the toJSON() documents: of a Some or an Ok, of None, of an Err
Shaped ==
    {[result |-> TRUE, value |-> Num(0)], [result |-> FALSE],
     [result |-> FALSE, value |-> Num(0)]}

\* the values given to is(): every wrapper, a number, a string, null,
\* undefined, and a plain object of each toJSON() shape
Unknowns ==
    {Wrapper(r) : r \in Refs}
        \cup {Primitive(v) : v \in {Num(0), EmptyString, Null, Undefined}}
        \cup {Plain(doc) : doc \in Shaped}

\* value instanceof cls: the class is on the prototype chain of value.
\* A primitive, null and undefined have none that holds it, a plain object
\* has Object.prototype only, and Option and Result do not extend each other.
InstanceOf(value, cls) ==
    CASE value.kind = "wrapper" -> heap[value.r].cls = cls
      [] value.kind = "plain" -> FALSE
      [] value.kind = "primitive" -> FALSE

\* the record of a call is(value)
CalledIs(op, value, out) ==
    [Called(op, 0, value.r, NoCb, out) EXCEPT
        !.args = IF value.kind = "primitive" THEN <<value.v>> ELSE <<>>,
        !.doc = value.doc]

\* Option.is that tests the shape: a `result` key
Option_is_shape(value) ==
    CASE value.kind = "wrapper" -> ReturnValue(Bool(TRUE))
      [] value.kind = "plain" -> ReturnValue(Bool("result" \in DOMAIN value.doc))
      [] value.kind = "primitive" -> ReturnValue(Bool(FALSE))

\* Option.is(value): value instanceof OptionClass
Option_is(value) ==
    ReturnValue(Bool(InstanceOf(value, "Option")))

\* a call of Option.is
Call_Option_is ==
    \E value \in Unknowns :
        LET out == Option_is(value)
        IN  /\ Fits(out)
            /\ heap' = out.heap
            /\ last' = CalledIs("Option.is", value, out)

\* Result.is(value): value instanceof ResultClass
Result_is(value) ==
    ReturnValue(Bool(InstanceOf(value, "Result")))

\* a call of Result.is
Call_Result_is ==
    \E value \in Unknowns :
        LET out == Result_is(value)
        IN  /\ Fits(out)
            /\ heap' = out.heap
            /\ last' = CalledIs("Result.is", value, out)

\* a call of Ok with a number
Call_Ok_Number ==
    \E a \in Nums :
        LET out == Ok(a)
        IN  /\ Fits(out)
            /\ heap' = out.heap
            /\ last' = Called("Ok", 0, 0, NoCb, out)

\* the runtime membership tests, with the constructors
NextIs ==
    \/ Call_Some
    \/ Call_Ok_Number
    \/ Call_Err
    \/ Call_Option_is
    \/ Call_Result_is

SpecIs == Init /\ [][NextIs]_vars

\* ---------------------------------------------------------------- immutability
\* Methods of both classes that construct, that short-circuit to the
\* receiver, that return their argument and that throw, with the constructors.
NextFrame ==
    \/ Call_Some
    \/ Call_Ok_Number
    \/ Call_Err
    \/ Call_Option_map
    \/ Call_Option_or
    \/ Call_Result_mapErr
    \/ Call_Result_and
    \/ Call_Result_ok
    \/ Call_Result_unwrapExact

SpecFrame == Init /\ [][NextFrame]_vars

\* ---------------------------------------------------------------- Option.unwrapExact
\* a call of Some with any value, undefined and null among them
Call_Some_Any ==
    \E value \in FromValues :
        LET out == Some(value)
        IN  /\ Fits(out)
            /\ heap' = out.heap
            /\ last' = [Called("Some", 0, 0, NoCb, out) EXCEPT !.args = <<value>>]

\* unwrapExact() of Option: like unwrap(), except that it throws an error
\* when the Option isn't Some
Option_unwrapExact(self) ==
    IF isSome(self) THEN ReturnValue(heap[self].value)
    ELSE Throw(ErrorVal("Error", 0))

\* a call of Option.unwrapExact
Call_Option_unwrapExact ==
    \E self \in Options :
        LET out == Option_unwrapExact(self)
        IN  /\ Fits(out)
            /\ heap' = out.heap
            /\ last' = Called("Option.unwrapExact", self, 0, NoCb, out)

\* unwrap and unwrapExact of Option
NextOptionUnwrap ==
    \/ Call_Some_Any
    \/ Call_Option_unwrap
    \/ Call_Option_unwrapExact

SpecOptionUnwrap == Init /\ [][NextOptionUnwrap]_vars

\* ---------------------------------------------------------------- Option.ap
\* a call of Some with a function
Call_Some_Fn ==
    \E g \in ValueFns :
        LET out == Some(Fn(g))
        IN  /\ Fits(out)
            /\ heap' = out.heap
            /\ last' = Called("Some", 0, 0, NoCb, out)

\* the Options an ap accepts as f: Option<(a: A) => B>
FnOptions == {r \in Options : isSome(r) => heap[r].value.t = "function"}

\* ap(f) of Option (formerly apply): if both Options are Some, call the
\* function of f with the value of this Option and return an Option holding
\* what it returns; if either is None, return None
Option_ap(self, f) ==
    IF isSome(self) /\ isSome(f) THEN InvokeWrap(FnOf(f), heap[self].value, "Some")
    ELSE Return(None)

\* a call of Option.ap
Call_Option_ap ==
    \E self \in Options, f \in FnOptions :
        LET out == Option_ap(self, f)
        IN  /\ Fits(out)
            /\ heap' = out.heap
            /\ last' = Called("Option.ap", self, f, FnOf(f), out)

\* the applicative apply of Option
NextOptionAp ==
    \/ Call_Some
    \/ Call_Some_Fn
    \/ Call_Option_ap

SpecOptionAp == Init /\ [][NextOptionAp]_vars

\* ---------------------------------------------------------------- match, bichain, bimap
\* the pairs of value callbacks given to Result.match and Result.bimap
FnPairs == {<<f, g>> \in ValueCbs \X ValueCbs : f # g}

\* the pairs given to Option.match: a value callback and the thunk `() => 0`
ThunkPairs ==
    {<<f, g>> \in ValueCbs \X Thunks : g.fn = "return" /\ g.v = Num(0)}

\* the pairs given to Result.bichain: r.bichain(Ok, Err), r.bichain(Err, Ok)
FactoryPairs ==
    {<<[fn |-> "Ok", kref |-> 0], [fn |-> "Err", kref |-> 0]>>,
     <<[fn |-> "Err", kref |-> 0], [fn |-> "Ok", kref |-> 0]>>}

\* the call, as the parameter `name`, that gave out
Ran(name, out) == [out EXCEPT !.ran = Append(out.ran, name)]

\* name(...fargs) returned the plain value v, which the method returns
RanValue(name, fargs, v) ==
    Ran(name, [ReturnValue(v) EXCEPT !.calls = 1, !.fargs = fargs, !.fval = v])

\* Option.match that calls onNone first, for a default
Option_match_both(self, onSome, onNone) ==
    IF isSome(self)
    THEN [RanValue("onSome", <<heap[self].value>>, ApplyFn(onSome.fn, heap[self].value))
             EXCEPT !.calls = 2, !.ran = <<"onNone", "onSome">>]
    ELSE RanValue("onNone", <<>>, RunThunk(onNone).v)

\* match(onSome, onNone): this.isSome() ? onSome(this.value) : onNone()
Option_match(self, onSome, onNone) ==
    IF isSome(self)
    THEN RanValue("onSome", <<heap[self].value>>, ApplyFn(onSome.fn, heap[self].value))
    ELSE RanValue("onNone", <<>>, RunThunk(onNone).v)

\* a call of Option.match
Call_Option_match ==
    \E self \in Options, p \in ThunkPairs :
        LET out == Option_match(self, p[1], p[2])
        IN  /\ Fits(out)
            /\ heap' = out.heap
            /\ last' = [Called("Option.match", self, 0, p[1], out)
                          EXCEPT !.args = <<Fn(p[1].fn), Fn(p[2].fn)>>]

\* match(onOk, onErr): this.isOk() ? onOk(this.value) : onErr(this.value)
Result_match(self, onOk, onErr) ==
    IF isOk(self)
    THEN RanValue("onOk", <<heap[self].value>>, ApplyFn(onOk.fn, heap[self].value))
    ELSE RanValue("onErr", <<heap[self].value>>, ApplyFn(onErr.fn, heap[self].value))

\* a call of Result.match
Call_Result_match ==
    \E self \in Results, p \in FnPairs :
        LET out == Result_match(self, p[1], p[2])
        IN  /\ Fits(out)
            /\ heap' = out.heap
            /\ last' = [Called("Result.match", self, 0, p[1], out)
                          EXCEPT !.args = <<Fn(p[1].fn), Fn(p[2].fn)>>]

\* bichain(ok, err): this.isOk() ? ok(this.value) : err(this.value)
Result_bichain(self, ok, err) ==
    IF isOk(self) THEN Ran("ok", InvokeCb(ok, heap[self].value))
    ELSE Ran("err", InvokeCb(err, heap[self].value))

\* a call of Result.bichain
Call_Result_bichain ==
    \E self \in Results, p \in FactoryPairs :
        LET out == Result_bichain(self, p[1], p[2])
        IN  /\ Fits(out)
            /\ heap' = out.heap
            /\ last' = [Called("Result.bichain", self, 0, p[1], out)
                          EXCEPT !.args = <<Fn(p[1].fn), Fn(p[2].fn)>>]

\* bimap(ok, err): this.isOk() ? Ok(ok(this.value)) : Err(err(this.value))
Result_bimap(self, ok, err) ==
    IF isOk(self) THEN Ran("ok", InvokeWrap(ok, heap[self].value, "Ok"))
    ELSE Ran("err", InvokeWrap(err, heap[self].value, "Err"))

\* a call of Result.bimap
Call_Result_bimap ==
    \E self \in Results, p \in FnPairs :
        LET out == Result_bimap(self, p[1], p[2])
        IN  /\ Fits(out)
            /\ heap' = out.heap
            /\ last' = [Called("Result.bimap", self, 0, p[1], out)
                          EXCEPT !.args = <<Fn(p[1].fn), Fn(p[2].fn)>>]

\* the two-callback methods, with the constructors
NextMatch ==
    \/ Call_Some
    \/ Call_Ok_Number
    \/ Call_Err
    \/ Call_Option_match
    \/ Call_Result_match
    \/ Call_Result_bichain
    \/ Call_Result_bimap

SpecMatch == Init /\ [][NextMatch]_vars

\* ---------------------------------------------------------------- Result.isAborted
\* the payloads of the Results isAborted is called on: the DOMException of
\* an abort, a DOMException of another name, an Error that is no
\* DOMException but is named "AbortError", and a number
AbortPayloads ==
    {DOMExceptionVal("AbortError"), DOMExceptionVal("TimeoutError"),
     ErrorVal("AbortError", 0), Num(0)}

\* a call of Ok with one of these payloads
Call_Ok_Exception ==
    \E a \in AbortPayloads :
        LET out == Ok(a)
        IN  /\ Fits(out)
            /\ heap' = out.heap
            /\ last' = Called("Ok", 0, 0, NoCb, out)

\* a call of Err with one of these payloads
Call_Err_Exception ==
    \E e \in AbortPayloads :
        LET out == Err(e)
        IN  /\ Fits(out)
            /\ heap' = out.heap
            /\ last' = Called("Err", 0, 0, NoCb, out)

\* isAborted that tests the name only
Result_isAborted_nameOnly(self) ==
    ReturnValue(Bool(isErr(self) /\ heap[self].value.f = "AbortError"))

\* isAborted(): this.isErr() && this.value instanceof DOMException &&
\*              this.value.name === "AbortError"
Result_isAborted(self) ==
    ReturnValue(Bool(/\ isErr(self)
                     /\ heap[self].value.t = "DOMException"
                     /\ heap[self].value.f = "AbortError"))

\* a call of Result.isAborted
Call_Result_isAborted ==
    \E self \in Results :
        LET out == Result_isAborted(self)
        IN  /\ Fits(out)
            /\ heap' = out.heap
            /\ last' = Called("Result.isAborted", self, 0, NoCb, out)

NextAborted ==
    \/ Call_Ok_Exception
    \/ Call_Err_Exception
    \/ Call_Result_isAborted

SpecAborted == Init /\ [][NextAborted]_vars

\* ---------------------------------------------------------------- back to nullable
\* unwrap and Option.from, on Options of any payload
NextNullable ==
    \/ Call_Some_Any
    \/ Call_Option_unwrap
    \/ Call_Option_from

SpecNullable == Init /\ [][NextNullable]_vars

\* ================================================================ claims
\* the wrapper a call constructed: the newest of the heap, no argument of
\* the call
Fresh(ret) == ret = Len(heap) /\ ret \notin {last.self, last.arg, last.kref}

\* the call invoked its callback exactly once, with v
InvokedOnceWith(v) == last.calls = 1 /\ last.farg = v

\* C1: Option.and returns the argument itself on a Some receiver and None
\* on a None receiver.
C1_OptionAnd ==
    last.op = "Option.and" =>
        last.ret = (IF isSome(last.self) THEN last.arg ELSE None)

\* C2: Option.or returns the argument on a None receiver and the receiver
\* itself on a Some receiver.
C2_OptionOr ==
    last.op = "Option.or" =>
        last.ret = (IF isNone(last.self) THEN last.arg ELSE last.self)

\* C3: Result.or returns the argument on an Err receiver and the receiver
\* itself on an Ok receiver.
C3_ResultOr ==
    last.op = "Result.or" =>
        last.ret = (IF isErr(last.self) THEN last.arg ELSE last.self)

\* C4: Result.and returns the argument on an Ok receiver and the receiver
\* itself (same instance, same error payload) on an Err receiver.
C4_ResultAnd ==
    last.op = "Result.and" =>
        /\ last.ret = (IF isOk(last.self) THEN last.arg ELSE last.self)
        /\ last.calls = 0

\* C4 witness: an Err receiver and-ed with a different, Ok argument
C4_Witness ==
    /\ last.op = "Result.and"
    /\ isErr(last.self)
    /\ isOk(last.arg)
    /\ last.ret = last.self

\* C5: r.ap(fr) returns fr itself when fr is Err, calling nothing; else
\* Ok(g(v)) when r is Ok(v) and fr is Ok(g), g called once with v; else the
\* receiver Err itself.
C5_ResultAp ==
    last.op = "Result.ap" =>
        IF isErr(last.arg)
        THEN last.ret = last.arg /\ last.calls = 0
        ELSE IF isOk(last.self)
             THEN /\ Fresh(last.ret)
                  /\ heap[last.ret] =
                        OkObj(ApplyFn(heap[last.arg].value.f, heap[last.self].value))
                  /\ InvokedOnceWith(heap[last.self].value)
             ELSE last.ret = last.self /\ last.calls = 0

\* C5 witness: Err(e2).ap(Err(e1)) with e1 # e2 returned the function side
C5_Witness ==
    /\ last.op = "Result.ap"
    /\ isErr(last.self)
    /\ isErr(last.arg)
    /\ heap[last.self].value # heap[last.arg].value
    /\ last.ret = last.arg

\* C6: Some(v).map(f) is a Some holding f(v), f invoked exactly once;
\* None.map(f) is None, f not invoked.
C6_OptionMap ==
    last.op = "Option.map" =>
        IF isSome(last.self)
        THEN /\ heap[last.ret] = SomeObj(ApplyFn(last.fn, heap[last.self].value))
             /\ InvokedOnceWith(heap[last.self].value)
        ELSE last.ret = None /\ last.calls = 0

\* C6 witness: Some(v).map(succ) returned a Some with another payload
C6_Witness ==
    /\ last.op = "Option.map"
    /\ isSome(last.self)
    /\ last.fn = "succ"
    /\ isSome(last.ret)
    /\ heap[last.ret].value # heap[last.self].value

\* C7: Some(v).chain(f) is f(v); opt.chain(Some) is structurally equal to
\* opt; None.chain(f) is None with f not invoked.
C7_OptionChain ==
    last.op = "Option.chain" =>
        /\ IF isSome(last.self)
           THEN /\ InvokedOnceWith(heap[last.self].value)
                /\ last.ret = last.fret
                /\ last.fn = "konst" => last.ret = last.kref
           ELSE last.ret = None /\ last.calls = 0
        /\ last.fn = "Some" => heap[last.ret] = heap[last.self]

\* C7 witness: Some(v).chain(Some) returned a wrapper equal to the receiver
C7_Witness ==
    /\ last.op = "Option.chain"
    /\ last.fn = "Some"
    /\ isSome(last.self)
    /\ isSome(last.ret)

\* C8: None.chainNone(f) returns exactly what f() returns, f invoked once;
\* Some(v).chainNone(f) returns the receiver itself, f not invoked.
C8_OptionChainNone ==
    last.op = "Option.chainNone" =>
        IF isNone(last.self)
        THEN /\ last.calls = 1
             /\ last.ret = last.fret
             /\ last.fn = "konst" => last.ret = last.kref
             /\ last.fn = "mkSome" =>
                    Fresh(last.ret) /\ heap[last.ret] = SomeObj(Num(0))
        ELSE last.ret = last.self /\ last.calls = 0

\* C8 witness: None.chainNone(() => w) returned the Some w
C8_Witness ==
    /\ last.op = "Option.chainNone"
    /\ isNone(last.self)
    /\ last.fn = "konst"
    /\ isSome(last.ret)

\* C9: Ok(v).chain(f) returns f(v) and Err(e).chainErr(f) returns f(e); on
\* the other variant the receiver instance itself is returned and f is not
\* invoked.
C9_ResultChain ==
    last.op \in {"Result.chain", "Result.chainErr"} =>
        IF isOk(last.self) <=> last.op = "Result.chain"
        THEN /\ InvokedOnceWith(heap[last.self].value)
             /\ last.ret = last.fret
             /\ last.fn = "konst" => last.ret = last.kref
             /\ last.fn = "Ok" =>
                    Fresh(last.ret) /\ heap[last.ret] = OkObj(heap[last.self].value)
             /\ last.fn = "Err" =>
                    Fresh(last.ret) /\ heap[last.ret] = ErrObj(heap[last.self].value)
        ELSE last.ret = last.self /\ last.calls = 0

\* C9 witness: Err(e).chain(f) returned the receiver
C9_Witness ==
    /\ last.op = "Result.chain"
    /\ isErr(last.self)
    /\ last.fn = "Ok"
    /\ last.ret = last.self

\* C10: Ok(v).map(f) is Ok(f(v)) and Err(e).mapErr(f) is Err(f(e)), the
\* variant unchanged; Err(e).map(f) and Ok(v).mapErr(f) return the receiver
\* itself, f not invoked.
C10_ResultMap ==
    last.op \in {"Result.map", "Result.mapErr"} =>
        /\ heap[last.ret].result = heap[last.self].result
        /\ IF isOk(last.self) <=> last.op = "Result.map"
           THEN /\ Fresh(last.ret)
                /\ heap[last.ret].value = ApplyFn(last.fn, heap[last.self].value)
                /\ heap[last.ret].cls = "Result"
                /\ InvokedOnceWith(heap[last.self].value)
           ELSE last.ret = last.self /\ last.calls = 0

\* C10 witness: Err(e).mapErr(succ) returned an Err with another payload
C10_Witness ==
    /\ last.op = "Result.mapErr"
    /\ isErr(last.self)
    /\ last.fn = "succ"
    /\ isErr(last.ret)
    /\ heap[last.ret].value # heap[last.self].value

\* C11: Result.unwrapExact returns v on Ok(v) without throwing; on Err(e) it
\* throws, and the thrown value is e itself, whether e is an Error or not.
C11_UnwrapExact ==
    last.op = "Result.unwrapExact" =>
        IF isOk(last.self)
        THEN ~last.threw /\ last.val = heap[last.self].value
        ELSE last.threw /\ last.thrown = heap[last.self].value

\* C11 witness: unwrapExact threw the number an Err held
C11_Witness ==
    /\ last.op = "Result.unwrapExact"
    /\ isErr(last.self)
    /\ last.threw
    /\ last.thrown.t = "number"

\* C20: Ok(v).unwrap() is v and Ok(v).unwrapErr() is undefined;
\* Err(e).unwrapErr() is e and Err(e).unwrap() is undefined; neither throws.
C20_ResultUnwrap ==
    last.op \in {"Result.unwrap", "Result.unwrapErr"} =>
        /\ ~last.threw
        /\ last.ret = 0
        /\ last.val = (IF isOk(last.self) <=> last.op = "Result.unwrap"
                       THEN heap[last.self].value
                       ELSE Undefined)

\* C20 witness: Err(e).unwrap() returned undefined
C20_Witness ==
    /\ last.op = "Result.unwrap"
    /\ isErr(last.self)
    /\ heap[last.self].value # Undefined
    /\ last.val = Undefined

\* C12: Result.try(f) invokes f exactly once with no arguments and never
\* throws; it returns Ok(v) when f returns v and Err(e) when f throws e, e
\* being the thrown value itself, Error instance or not.
C12_ResultTry ==
    last.op = "Result.try" =>
        /\ ~last.threw
        /\ last.calls = 1
        /\ last.fargs = <<>>
        /\ last.fthrew <=> last.fn = "throw"
        /\ Fresh(last.ret)
        /\ heap[last.ret] = (IF last.fthrew THEN ErrObj(last.fval) ELSE OkObj(last.fval))

\* C12 witness: Result.try of a thunk that threw a number returned an Err
\* holding it
C12_Witness ==
    /\ last.op = "Result.try"
    /\ last.fthrew
    /\ last.fval.t = "number"
    /\ last.ret # 0
    /\ heap[last.ret] = ErrObj(last.fval)

\* C13: Result.lift(fn) does not invoke fn; each call lifted(...args)
\* invokes fn exactly once with the same arguments, never throws, and returns
\* Ok(fn(...args)) when fn returns and Err(e) when fn throws e, as
\* Result.try(() => fn(...args)) does.
C13_ResultLift ==
    /\ last.op = "Result.lift" =>
            /\ last.calls = 0
            /\ heap[last.ret] = LiftedObj(last.fn)
    /\ last.op = "lifted" =>
            /\ ~last.threw
            /\ last.calls = 1
            /\ last.fargs = last.args
            /\ Fresh(last.ret)
            /\ heap[last.ret] =
                 (IF ApplyLiftFn(heap[last.self].value.f, last.args).threw
                  THEN ErrObj(ApplyLiftFn(heap[last.self].value.f, last.args).v)
                  ELSE OkObj(ApplyLiftFn(heap[last.self].value.f, last.args).v))

\* C13 witness: the lifted div, called with by = 0, returned an Err holding
\* the RangeError
C13_Witness ==
    /\ last.op = "lifted"
    /\ last.fn = "div"
    /\ last.args[2] = Num(0)
    /\ last.ret # 0
    /\ isErr(last.ret)
    /\ heap[last.ret].value.t = "Error"

\* the promise d, returned by Result.await, is consistent with its source:
\* never rejected; no conversion has run while it is pending; once fulfilled,
\* exactly one conversion has run exactly once, Ok when the source fulfilled
\* and Err when it rejected, and d holds that conversion of the source's value
AwaitedRight(d) ==
    LET p == heap[d]
        src == heap[p.src]
    IN  /\ p.state # "rejected"
        /\ p.state = "pending" => p.ranF + p.ranR = 0
        /\ p.state = "fulfilled" =>
              /\ src.state # "pending"
              /\ p.ranF + p.ranR = 1
              /\ p.ranF = 1 <=> src.state = "fulfilled"
              /\ heap[p.value.n] =
                    (IF src.state = "fulfilled" THEN OkObj(src.value)
                     ELSE ErrObj(src.value))

\* the references a heap of the model can hold
HeapRefs == 1..(2 * MaxHeap)

\* C14: the promise Result.await returns is never rejected; when the input
\* promise fulfils with v it fulfils with Ok(v), when the input rejects with
\* e it fulfils with Err(e); exactly one of the two conversions runs, once.
C14_Await ==
    /\ [](\A d \in Derived : AwaitedRight(d))
    /\ \A d \in HeapRefs :
          (d \in Derived /\ heap[heap[d].src].state # "pending")
              ~> (d \in Derived /\ heap[d].state = "fulfilled")

\* C14 witness: an awaited promise fulfilled with Err(e) after its input
\* rejected with e
C14_Witness ==
    \E d \in Derived :
        /\ heap[d].state = "fulfilled"
        /\ heap[heap[d].src].state = "rejected"
        /\ heap[heap[d].value.n] = ErrObj(heap[heap[d].src].value)

\* C15: Option.fromJSON(x.toJSON()) is structurally equal to the Option x
\* (None maps back to None) and Result.fromJSON(x.toJSON()) is structurally
\* equal to the Result x: same variant, same payload.
C15_RoundTrip ==
    last.op \in {"Option.fromJSON", "Result.fromJSON"} =>
        /\ heap[last.ret] = heap[last.arg]
        /\ last.arg = None => last.ret = None

\* C15 witness: the document of an Err(e) came back as another Err
C15_Witness ==
    /\ last.op = "Result.fromJSON"
    /\ isErr(last.arg)
    /\ last.ret # last.arg
    /\ isErr(last.ret)

\* the plain object doc has exactly the keys flag and "value", holding b and v
DocIs(doc, flag, b, v) ==
    /\ DOMAIN doc = {flag, "value"}
    /\ doc[flag] = b
    /\ doc["value"] = v

\* the plain object doc has the key flag only, holding b
DocIsOnly(doc, flag, b) ==
    /\ DOMAIN doc = {flag}
    /\ doc[flag] = b

\* C16 as stated: Option.toJSON yields {present: true, value: v} for Some(v)
\* and {present: false} for None; Result.toJSON yields {ok: true, value: v}
\* for Ok(v) and {ok: false, value: e} for Err(e).
C16_Shape_stated ==
    /\ last.op = "Option.toJSON" =>
          IF isSome(last.self)
          THEN DocIs(last.doc, "present", TRUE, heap[last.self].value)
          ELSE DocIsOnly(last.doc, "present", FALSE)
    /\ last.op = "Result.toJSON" =>
          DocIs(last.doc, "ok", isOk(last.self), heap[last.self].value)

\* C16 amended: the documents have the stated shape with the key `result`
\* for both types: {result: true, value: v} for Some(v), {result: false}
\* with no value key for None, {result: true, value: v} for Ok(v) and
\* {result: false, value: e} for Err(e).
C16_Shape ==
    /\ last.op = "Option.toJSON" =>
          IF isSome(last.self)
          THEN DocIs(last.doc, "result", TRUE, heap[last.self].value)
          ELSE DocIsOnly(last.doc, "result", FALSE)
    /\ last.op = "Result.toJSON" =>
          DocIs(last.doc, "result", isOk(last.self), heap[last.self].value)

\* C16 witness: None.toJSON() returned a document without a value key
C16_Witness ==
    /\ last.op = "Option.toJSON"
    /\ isNone(last.self)
    /\ "value" \notin DOMAIN last.doc

\* C17: Option.from(undefined) is None; for every other value, the falsy 0,
\* false, '' and null included, Option.from(value) is Some(value).
C17_OptionFrom ==
    last.op = "Option.from" =>
        IF last.args[1] = Undefined
        THEN last.ret = None
        ELSE Fresh(last.ret) /\ heap[last.ret] = SomeObj(last.args[1])

\* C17 witness: Option.from(null) returned Some(null)
C17_Witness ==
    /\ last.op = "Option.from"
    /\ last.args[1] = Null
    /\ last.ret # None
    /\ heap[last.ret] = SomeObj(Null)

AssertOps ==
    {"Option.assertSome", "Option.assertNone", "Result.assertOk", "Result.assertErr"}

\* what the predicate that an assertion op names gives for the wrapper self
Asserted(op, self) ==
    CASE op = "Option.assertSome" -> isSome(self)
      [] op = "Option.assertNone" -> isNone(self)
      [] op = "Result.assertOk" -> isOk(self)
      [] op = "Result.assertErr" -> isErr(self)

\* C18: assertSome, assertNone, assertOk and assertErr throw a TypeError
\* exactly when isSome / isNone / isOk / isErr is false, and return normally,
\* the receiver and every other wrapper unchanged, exactly when it is true.
C18_Asserts ==
    [][last'.op \in AssertOps =>
          /\ heap' = heap
          /\ last'.threw <=> ~Asserted(last'.op, last'.self)
          /\ last'.threw => last'.thrown = TypeError
          /\ ~last'.threw => last'.val = Undefined /\ last'.ret = 0]_vars

\* C18 witness: assertErr threw a TypeError on an Ok
C18_Witness ==
    /\ last.op = "Result.assertErr"
    /\ isOk(last.self)
    /\ last.threw
    /\ last.thrown.f = "TypeError"

\* C19: Some(v): isSome() true, isNone() false, unwrap() v; None: isSome()
\* false, isNone() true, unwrap() undefined; Ok(v): isOk() true, isErr() false;
\* Err(e): isOk() false, isErr() true.  For every Option exactly one of
\* isSome / isNone holds, for every Result exactly one of isOk / isErr.
C19_Observers ==
    /\ \A r \in Options : isSome(r) # isNone(r)
    /\ \A r \in Results : isOk(r) # isErr(r)
    /\ \A r \in Options : (r = None) # (heap[r] = SomeObj(heap[r].value))
    /\ last.op = "Option.isSome" => last.val = Bool(last.self # None)
    /\ last.op = "Option.isNone" => last.val = Bool(last.self = None)
    /\ last.op = "Option.unwrap" =>
          /\ ~last.threw
          /\ last.val = (IF last.self = None THEN Undefined ELSE heap[last.self].value)
    /\ last.op = "Result.isOk" =>
          last.val = Bool(heap[last.self] = OkObj(heap[last.self].value))
    /\ last.op = "Result.isErr" =>
          last.val = Bool(heap[last.self] = ErrObj(heap[last.self].value))
    /\ last.op \in {"Some", "Ok", "Err"} =>
          heap[last.ret].result = (last.op # "Err")

\* C19 witness: Err(e).isErr() returned true
C19_Witness ==
    /\ last.op = "Result.isErr"
    /\ heap[last.self] = ErrObj(heap[last.self].value)
    /\ last.val = Bool(TRUE)

\* C23: Some(v).okOr(err) and Some(v).okOrElse(f) are a new Ok(v), f never
\* invoked; None.okOr(err) is a new Err(err); None.okOrElse(f) is a new
\* Err(f()), f invoked exactly once (with no argument); what f throws,
\* okOrElse throws.
C23_OkOr ==
    /\ last.op \in {"Option.okOr", "Option.okOrElse"} /\ last.self # None =>
          /\ Fresh(last.ret)
          /\ heap[last.ret] = OkObj(heap[last.self].value)
          /\ last.calls = 0
          /\ ~last.threw
    /\ last.op = "Option.okOr" /\ last.self = None =>
          /\ Fresh(last.ret)
          /\ heap[last.ret] = ErrObj(last.args[1])
          /\ ~last.threw
    /\ last.op = "Option.okOrElse" /\ last.self = None =>
          /\ last.calls = 1
          /\ last.fargs = <<>>
          /\ ~last.fthrew =>
                /\ Fresh(last.ret)
                /\ heap[last.ret] = ErrObj(last.fval)
                /\ ~last.threw
          /\ last.fthrew => last.threw /\ last.thrown = last.fval

\* C23 witness: None.okOrElse(() => 1) returned Err(1) after one call of f
C23_Witness ==
    /\ last.op = "Option.okOrElse"
    /\ last.self = None
    /\ last.calls = 1
    /\ ~last.threw
    /\ heap[last.ret] = ErrObj(Num(1))

\* what Result.ok (side TRUE) or Result.err (side FALSE) has to return
Projected(side) ==
    IF heap[last.self].result = side
    THEN Fresh(last.ret) /\ heap[last.ret] = SomeObj(heap[last.self].value)
    ELSE last.ret = None

\* C24: Ok(v).ok() is a new Some(v) and Ok(v).err() is None; Err(e).err() is
\* a new Some(e) and Err(e).ok() is None; so for every Option o and error
\* value e, the Option that o.okOr(e).ok() returns equals o structurally.
C24_Project ==
    [][/\ last'.op = "Result.ok" => Projected(TRUE)'
       /\ last'.op = "Result.err" => Projected(FALSE)'
       /\ (/\ last.op = "Option.okOr"
           /\ last'.op = "Result.ok"
           /\ last'.self = last.ret) => heap'[last'.ret] = heap[last.self]]_vars

\* C24 witness: Err(e).err() returned a new Some(e)
C24_Witness ==
    /\ last.op = "Result.err"
    /\ isErr(last.self)
    /\ last.ret = Len(heap)
    /\ heap[last.ret] = SomeObj(heap[last.self].value)

\* Every empty Option is the shared None, which holds no payload, and the
\* operations other than `and` that are to yield an empty Option return it.
NoneShared ==
    /\ \A r \in Options : isNone(r) => r = None
    /\ heap[None] = NoneObj
    /\ last.op = "Option.from" /\ last.args[1] = Undefined => last.ret = None
    /\ last.op = "Option.fromJSON" /\ ~last.doc.result => last.ret = None
    /\ last.op \in {"Option.map", "Option.chain"} /\ last.self = None => last.ret = None
    /\ last.op = "Result.ok" /\ isErr(last.self) => last.ret = None
    /\ last.op = "Result.err" /\ isOk(last.self) => last.ret = None

\* C21: Option.from(undefined), Option.fromJSON of a None document, map,
\* chain and and on None, Result.ok() on an Err and Result.err() on an Ok
\* return the one shared None; every empty Option is that instance, and it
\* holds no payload.
C21_NoneSingleton ==
    /\ NoneShared
    /\ last.op = "Option.and" /\ last.self = None => last.ret = None

\* the wrapper r is None or what Some constructs
IsOption(r) == r = None \/ heap[r] = SomeObj(heap[r].value)

\* the wrapper r is what Ok or Err constructs
IsResult(r) == heap[r] = OkObj(heap[r].value) \/ heap[r] = ErrObj(heap[r].value)

\* C22: Option.is(x) is true for every Some(v) and for None, Result.is(x)
\* for every Ok(v) and Err(e); both are false for primitives, null and
\* undefined, for plain objects shaped like the toJSON output, and for
\* instances of the other type.
C22_Is ==
    /\ \A r \in Refs : IsOption(r) # IsResult(r)
    /\ last.op = "Option.is" =>
          last.val = Bool(last.arg # 0 /\ IsOption(last.arg))
    /\ last.op = "Result.is" =>
          last.val = Bool(last.arg # 0 /\ IsResult(last.arg))
    /\ last.op \in {"Option.is", "Result.is"} /\ last.arg = 0 =>
          last.val = Bool(FALSE)

\* C22 witness: Option.is of the document of a Some was false
C22_Witness ==
    /\ last.op = "Option.is"
    /\ last.arg = 0
    /\ last.doc # NoDoc
    /\ DocGet(last.doc, "result") = TRUE
    /\ last.val = Bool(FALSE)

\* C25: no call changes the tag or the payload of a wrapper constructed
\* before it, the shared None included; the wrapper a call returns is either
\* newly constructed by the call or an instance that existed before it, and
\* that instance is as it was.
C25_Immutable ==
    [][/\ Len(heap') >= Len(heap)
       /\ \A r \in Refs : heap'[r] = heap[r]
       /\ heap'[None] = NoneObj
       /\ last'.ret # 0 =>
             \/ last'.ret \in Refs /\ Len(heap') = Len(heap)
             \/ last'.ret = Len(heap) + 1 /\ Len(heap') = Len(heap) + 1]_vars

\* C25 witness: a Some was the argument of or() on a Some and was returned
\* as it was constructed
C25_Witness ==
    /\ last.op = "Option.or"
    /\ last.self # None
    /\ last.arg # None
    /\ last.ret = last.arg
    /\ heap[last.arg] = SomeObj(heap[last.arg].value)

RanOnly(name, fargs) ==
    last.ran = <<name>> /\ last.calls = 1 /\ last.fargs = fargs /\ ~last.threw

\* the call invoked the parameter `name` once, with v, nothing else, and
\* returned a new wrapper
RanOnlyNew(name, v) ==
    last.ran = <<name>> /\ InvokedOnceWith(v) /\ Fresh(last.ret) /\ ~last.threw

\* C28: match invokes exactly one of its two callbacks, once (onSome / onOk
\* with the payload when the tag is true, else onNone with no argument /
\* onErr with the error payload) and returns what it returned; bichain
\* returns the Result of exactly one of its two functions; bimap returns
\* Ok(ok(v)) for Ok(v) and Err(err(e)) for Err(e), the other function never
\* invoked.
C28_TwoCallbacks ==
    LET v == heap[last.self].value
        tag == heap[last.self].result
    IN  /\ last.op = "Option.match" =>
              IF tag
              THEN RanOnly("onSome", <<v>>) /\ last.val = ApplyFn(last.args[1].f, v)
              ELSE RanOnly("onNone", <<>>) /\ last.val = Num(0)
        /\ last.op = "Result.match" =>
              IF tag
              THEN RanOnly("onOk", <<v>>) /\ last.val = ApplyFn(last.args[1].f, v)
              ELSE RanOnly("onErr", <<v>>) /\ last.val = ApplyFn(last.args[2].f, v)
        /\ last.op = "Result.bichain" =>
              IF tag
              THEN /\ RanOnlyNew("ok", v)
                   /\ last.ret = last.fret
                   /\ heap[last.ret] = Construct(last.args[1].f, v)
              ELSE /\ RanOnlyNew("err", v)
                   /\ last.ret = last.fret
                   /\ heap[last.ret] = Construct(last.args[2].f, v)
        /\ last.op = "Result.bimap" =>
              IF tag
              THEN RanOnlyNew("ok", v) /\ heap[last.ret] = OkObj(ApplyFn(last.args[1].f, v))
              ELSE RanOnlyNew("err", v) /\ heap[last.ret] = ErrObj(ApplyFn(last.args[2].f, v))

\* C28 witness: Err(0).bimap(zero, succ) returned a new Err(1), having
\* invoked err only
C28_Witness ==
    /\ last.op = "Result.bimap"
    /\ heap[last.self] = ErrObj(Num(0))
    /\ last.args = <<Fn("zero"), Fn("succ")>>
    /\ last.ran = <<"err">>
    /\ heap[last.ret] = ErrObj(Num(1))

\* C29: isAborted() is true exactly for an Err that holds a DOMException
\* named "AbortError": false for every Ok, also one that holds such an
\* exception, for an Err that holds a DOMException of another name, and for
\* an Err that holds a value named "AbortError" that is no DOMException.
C29_IsAborted ==
    last.op = "Result.isAborted" =>
        /\ last.val \in {Bool(TRUE), Bool(FALSE)}
        /\ last.val = Bool(TRUE) <=>
              heap[last.self] = ErrObj(DOMExceptionVal("AbortError"))
        /\ heap[last.self] = OkObj(heap[last.self].value) => last.val = Bool(FALSE)
        /\ heap[last.self] = ErrObj(DOMExceptionVal("TimeoutError")) =>
              last.val = Bool(FALSE)
        /\ heap[last.self] = ErrObj(ErrorVal("AbortError", 0)) => last.val = Bool(FALSE)

\* C29 witness: isAborted() was false on an Err holding an Error named
\* "AbortError" that is no DOMException
C29_Witness ==
    /\ last.op = "Result.isAborted"
    /\ heap[last.self] = ErrObj(ErrorVal("AbortError", 0))
    /\ last.val = Bool(FALSE)

\* C30: for every Option o, Option.from(o.unwrap()) equals o structurally
\* when o is None or Some(v) with v not undefined, and is None for
\* o = Some(undefined): unwrap() returns undefined for Some(undefined) as
\* for None, although isSome() tells them apart.
C30_NullableRoundTrip ==
    [][/\ last'.op = "Option.unwrap" /\ heap'[last'.self] = SomeObj(Undefined) =>
             /\ last'.val = Undefined
             /\ heap'[last'.self].result
             /\ ~heap'[None].result
       /\ (/\ last.op = "Option.unwrap"
           /\ last'.op = "Option.from"
           /\ last'.args = <<last.val>>) =>
             IF heap[last.self] = SomeObj(Undefined)
             THEN last'.ret = None
             ELSE heap'[last'.ret] = heap[last.self]]_vars

\* C30 witness: there is a Some(undefined), and Option.from(undefined)
\* returned None
C30_Witness ==
    /\ last.op = "Option.from"
    /\ last.args = <<Undefined>>
    /\ last.ret = None
    /\ \E o \in Options : heap[o] = SomeObj(Undefined)

====
